---- MODULE Spec2Model ----
(***************************************************************************)
(* Model of the query-engine page script, src/index.tsx: the dispatcher    *)
(* (executeQuery and the handlers that reach it), the result formatter     *)
(* (displayQueryResult, highlightCode) and the copy button.                *)
(*                                                                         *)
(* Text is modelled character by character: a string is a sequence of      *)
(* one-character strings, so that trimming, substring search, the JSON     *)
(* round trip and every regular-expression rule act on the characters the  *)
(* code acts on.  The model's texts hold no backslash and no exponent      *)
(* notation; JSONParse and NumberToString are exact on such texts.         *)
(***************************************************************************)
EXTENDS Integers, Sequences, FiniteSets, TLC

\* ------------------------------------------------------------------------
\* Characters
\* ------------------------------------------------------------------------

LowerLetters == <<"a","b","c","d","e","f","g","h","i","j","k","l","m","n","o","p","q","r","s","t","u","v","w","x","y","z">>

UpperLetters == <<"A","B","C","D","E","F","G","H","I","J","K","L","M","N","O","P","Q","R","S","T","U","V","W","X","Y","Z">>

Digits == <<"0","1","2","3","4","5","6","7","8","9">>

Range(s) == {s[i] : i \in 1..Len(s)}

\* \w of a JavaScript regular expression: [A-Za-z0-9_].
WordChars == Range(LowerLetters) \cup Range(UpperLetters) \cup Range(Digits) \cup {"_"}

\* \d of a JavaScript regular expression.
DigitChars == Range(Digits)

\* What String.prototype.trim removes and what JSON allows between tokens.
Whitespace == {" ", "\n", "\t", "\r"}

\* Characters that may not appear raw inside a JSON string.
ControlChars == {"\n", "\t", "\r"}

\* The least element of a non-empty set of numbers.
Least(S) == CHOOSE m \in S : \A o \in S : m <= o

\* The position of c in the sequence cs, which holds it once.
IndexIn(cs, c) == 1 + Cardinality({j \in 1..Len(cs) : \A k \in 1..j : cs[k] # c})

LowerSet == Range(LowerLetters)

UpperSet == Range(UpperLetters)

toLowerCaseChar(c) ==
    IF c \in UpperSet THEN LowerLetters[IndexIn(UpperLetters, c)] ELSE c

\* String.prototype.toLowerCase
toLowerCase(s) == [i \in 1..Len(s) |-> toLowerCaseChar(s[i])]

RECURSIVE RunLen(_, _, _)
\* The number of characters from position i on that are in the set cs.
RunLen(s, i, cs) ==
    IF i >= 1 /\ i <= Len(s) /\ s[i] \in cs THEN 1 + RunLen(s, i + 1, cs) ELSE 0

RECURSIVE RunUntil(_, _, _)
\* The number of characters from position i on up to the first one in stop.
RunUntil(s, i, stop) ==
    IF i >= 1 /\ i <= Len(s) /\ s[i] \notin stop THEN 1 + RunUntil(s, i + 1, stop) ELSE 0

RECURSIVE RunLenBack(_, _, _)
\* The number of characters from position i backwards that are in the set cs.
RunLenBack(s, i, cs) ==
    IF i >= 1 /\ i <= Len(s) /\ s[i] \in cs THEN 1 + RunLenBack(s, i - 1, cs) ELSE 0

\* String.prototype.trim
trim(s) ==
    LET lead == RunLen(s, 1, Whitespace)
    IN  IF lead = Len(s) THEN <<>>
        ELSE SubSeq(s, lead + 1, Len(s) - RunLenBack(s, Len(s), Whitespace))

\* The text p occurs in s at position i.
MatchesAt(s, i, p) ==
    /\ i >= 1
    /\ i + Len(p) - 1 <= Len(s)
    /\ \A k \in 1..Len(p) : s[i + k - 1] = p[k]

\* The pairs of a letter and the same letter in the other case.
CasePairs ==
    {<<LowerLetters[n], UpperLetters[n]>> : n \in 1..Len(LowerLetters)}
        \cup {<<UpperLetters[n], LowerLetters[n]>> : n \in 1..Len(LowerLetters)}

\* The same under the regular expression's i flag.
MatchesAtIgnoreCase(s, i, p) ==
    /\ i >= 1
    /\ i + Len(p) - 1 <= Len(s)
    /\ \A k \in 1..Len(p) :
          s[i + k - 1] = p[k] \/ <<s[i + k - 1], p[k]>> \in CasePairs

\* String.prototype.startsWith
startsWith(s, p) == MatchesAt(s, 1, p)

\* String.prototype.includes
includes(s, p) == \E i \in 1..(Len(s) + 1) : MatchesAt(s, i, p)

\* \b of a regular expression, before the character at position i.
AtWordBoundary(s, i) ==
    LET before == i > 1 /\ i - 1 <= Len(s) /\ s[i - 1] \in WordChars
        after  == i >= 1 /\ i <= Len(s) /\ s[i] \in WordChars
    IN  before # after

RECURSIVE Concat(_)
\* The concatenation of a sequence of texts.
Concat(ss) == IF ss = <<>> THEN <<>> ELSE Head(ss) \o Concat(Tail(ss))

RECURSIVE Spaces(_)
Spaces(n) == IF n <= 0 THEN <<>> ELSE <<" ">> \o Spaces(n - 1)

\* ------------------------------------------------------------------------
\* JSON.parse and JSON.stringify(value, null, 2)
\* ------------------------------------------------------------------------

\* A parse that failed: JSON.parse throws a SyntaxError.
ParseFail == [ok |-> FALSE, val |-> <<>>, pos |-> 0]

ParseOk(v, p) == [ok |-> TRUE, val |-> v, pos |-> p]

SkipWs(s, i) == i + RunLen(s, i, Whitespace)

\* A string token opening at position i: no escapes, no raw control characters.
ParseString(s, i) ==
    LET j == i + 1 + RunUntil(s, i + 1, {"\"", "\\"} \cup ControlChars)
    IN  IF j <= Len(s) /\ s[j] = "\""
        THEN ParseOk([t |-> "str", v |-> SubSeq(s, i + 1, j - 1)], j + 1)
        ELSE ParseFail

\* A number token at position i: -? (0 | [1-9][0-9]*) (. [0-9]+)?
ParseNumber(s, i) ==
    LET neg  == s[i] = "-"
        a    == IF neg THEN i + 1 ELSE i
        run  == RunLen(s, a, DigitChars)
        ilen == IF run > 0 /\ s[a] = "0" THEN 1 ELSE run
        b    == a + ilen
        dot  == b <= Len(s) /\ s[b] = "."
        flen == IF dot THEN RunLen(s, b + 1, DigitChars) ELSE 0
    IN  IF a > Len(s) \/ ilen = 0 \/ (dot /\ flen = 0)
        THEN ParseFail
        ELSE ParseOk([t |-> "num", neg |-> neg, int |-> SubSeq(s, a, b - 1),
                      frac |-> IF dot THEN SubSeq(s, b + 1, b + flen) ELSE <<>>],
                     IF dot THEN b + 1 + flen ELSE b)

\* An own property is created, or the value of an existing one replaced in place.
ObjPut(ms, k, v) ==
    IF \E n \in 1..Len(ms) : ms[n].k = k
    THEN [n \in 1..Len(ms) |-> IF ms[n].k = k THEN [k |-> k, v |-> v] ELSE ms[n]]
    ELSE Append(ms, [k |-> k, v |-> v])

RECURSIVE ParseValue(_, _), ParseElements(_, _, _), ParseMembers(_, _, _)

ParseValue(s, i0) ==
    LET i == SkipWs(s, i0)
    IN  IF i > Len(s) THEN ParseFail
        ELSE IF s[i] = "{"
        THEN LET j == SkipWs(s, i + 1)
             IN  IF j <= Len(s) /\ s[j] = "}"
                 THEN ParseOk([t |-> "obj", v |-> <<>>], j + 1)
                 ELSE ParseMembers(s, j, <<>>)
        ELSE IF s[i] = "["
        THEN LET j == SkipWs(s, i + 1)
             IN  IF j <= Len(s) /\ s[j] = "]"
                 THEN ParseOk([t |-> "arr", v |-> <<>>], j + 1)
                 ELSE ParseElements(s, j, <<>>)
        ELSE IF s[i] = "\"" THEN ParseString(s, i)
        ELSE IF s[i] = "-" \/ s[i] \in DigitChars THEN ParseNumber(s, i)
        ELSE IF MatchesAt(s, i, <<"t","r","u","e">>)
        THEN ParseOk([t |-> "lit", v |-> <<"t","r","u","e">>], i + 4)
        ELSE IF MatchesAt(s, i, <<"f","a","l","s","e">>)
        THEN ParseOk([t |-> "lit", v |-> <<"f","a","l","s","e">>], i + 5)
        ELSE IF MatchesAt(s, i, <<"n","u","l","l">>)
        THEN ParseOk([t |-> "lit", v |-> <<"n","u","l","l">>], i + 4)
        ELSE ParseFail

\* The elements of an array from position i on, after those in acc.
ParseElements(s, i, acc) ==
    LET r == ParseValue(s, i)
        j == SkipWs(s, r.pos)
    IN  IF ~r.ok \/ j > Len(s) THEN ParseFail
        ELSE IF s[j] = "," THEN ParseElements(s, j + 1, Append(acc, r.val))
        ELSE IF s[j] = "]" THEN ParseOk([t |-> "arr", v |-> Append(acc, r.val)], j + 1)
        ELSE ParseFail

\* The members of an object from position i on, after those in acc.
ParseMembers(s, i0, acc) ==
    LET i  == SkipWs(s, i0)
        k  == IF i <= Len(s) /\ s[i] = "\"" THEN ParseString(s, i) ELSE ParseFail
        c  == IF k.ok THEN SkipWs(s, k.pos) ELSE 0
        r  == IF k.ok /\ c <= Len(s) /\ s[c] = ":" THEN ParseValue(s, c + 1) ELSE ParseFail
        j  == IF r.ok THEN SkipWs(s, r.pos) ELSE 0
    IN  IF ~r.ok \/ j > Len(s) THEN ParseFail
        ELSE IF s[j] = "," THEN ParseMembers(s, j + 1, ObjPut(acc, k.val.v, r.val))
        ELSE IF s[j] = "}" THEN ParseOk([t |-> "obj", v |-> ObjPut(acc, k.val.v, r.val)], j + 1)
        ELSE ParseFail

\* JSON.parse(s): the whole text is one value, or the parse throws.
JSONParse(s) ==
    LET r == ParseValue(s, 1)
    IN  IF r.ok /\ SkipWs(s, r.pos) = Len(s) + 1 THEN r ELSE ParseFail

DigitVal(c) == IndexIn(Digits, c) - 1

\* a < b for two texts of digits without leading zeros.
IndexLess(a, b) ==
    \/ Len(a) < Len(b)
    \/ /\ Len(a) = Len(b)
       /\ \E p \in 1..Len(a) :
             /\ DigitVal(a[p]) < DigitVal(b[p])
             /\ \A q \in 1..(p - 1) : a[q] = b[q]

\* An integer-index property key, a canonical number below 2^32 - 1: such keys
\* enumerate first, in ascending order.
IsArrayIndex(k) ==
    /\ Len(k) >= 1
    /\ \A n \in 1..Len(k) : k[n] \in DigitChars
    /\ (k[1] = "0" => Len(k) = 1)
    /\ IndexLess(k, <<"4","2","9","4","9","6","7","2","9","5">>)

RECURSIVE SortByIndex(_)
\* The members with integer-index keys in ascending order of key.
SortByIndex(ms) ==
    IF ms = <<>> THEN <<>>
    ELSE LET m == Head(ms)
         IN  SortByIndex(SelectSeq(Tail(ms), LAMBDA o : IndexLess(o.k, m.k)))
                 \o <<m>>
                 \o SortByIndex(SelectSeq(Tail(ms), LAMBDA o : ~IndexLess(o.k, m.k)))

\* The own properties of a parsed object in enumeration order.
OwnProperties(ms) ==
    SortByIndex(SelectSeq(ms, LAMBDA m : IsArrayIndex(m.k)))
        \o SelectSeq(ms, LAMBDA m : ~IsArrayIndex(m.k))

\* Number::toString of a parsed number: trailing fraction zeros go, -0 is 0.
NumberToString(n) ==
    LET frac == SubSeq(n.frac, 1, Len(n.frac) - RunLenBack(n.frac, Len(n.frac), {"0"}))
        zero == frac = <<>> /\ n.int = <<"0">>
    IN  (IF n.neg /\ ~zero THEN <<"-">> ELSE <<>>)
            \o n.int \o (IF frac = <<>> THEN <<>> ELSE <<".">> \o frac)

RECURSIVE Stringify(_, _), JoinLines(_, _, _)

\* The items of a JSON array or object, one per line at the given indentation.
JoinLines(v, items, ind) ==
    IF items = <<>> THEN <<>>
    ELSE Spaces(ind)
         \o (IF v.t = "obj"
             THEN <<"\"">> \o Head(items).k \o <<"\"", ":", " ">> \o Stringify(Head(items).v, ind)
             ELSE Stringify(Head(items), ind))
         \o (IF Len(items) > 1 THEN <<",", "\n">> ELSE <<"\n">>)
         \o JoinLines(v, Tail(items), ind)

\* JSON.stringify(v, null, 2), v at indentation ind.
Stringify(v, ind) ==
    IF v.t = "num" THEN NumberToString(v)
    ELSE IF v.t = "str" THEN <<"\"">> \o v.v \o <<"\"">>
    ELSE IF v.t = "lit" THEN v.v
    ELSE IF v.v = <<>> THEN (IF v.t = "obj" THEN <<"{", "}">> ELSE <<"[", "]">>)
    ELSE (IF v.t = "obj" THEN <<"{", "\n">> ELSE <<"[", "\n">>)
         \o JoinLines(v, IF v.t = "obj" THEN OwnProperties(v.v) ELSE v.v, ind + 2)
         \o Spaces(ind)
         \o (IF v.t = "obj" THEN <<"}">> ELSE <<"]">>)

\* ------------------------------------------------------------------------
\* highlightCode
\* ------------------------------------------------------------------------

\* The alternatives of the keyword expression, in its order (matched with the i flag).
keywords ==
    << <<"S","E","L","E","C","T">>,
       <<"F","R","O","M">>,
       <<"W","H","E","R","E">>,
       <<"L","E","F","T">>,
       <<"R","I","G","H","T">>,
       <<"I","N","N","E","R">>,
       <<"J","O","I","N">>,
       <<"O","N">>,
       <<"G","R","O","U","P"," ","B","Y">>,
       <<"O","R","D","E","R"," ","B","Y">>,
       <<"H","A","V","I","N","G">>,
       <<"L","I","M","I","T">>,
       <<"A","S">>,
       <<"D","I","S","T","I","N","C","T">>,
       <<"C","A","S","E">>,
       <<"W","H","E","N">>,
       <<"T","H","E","N">>,
       <<"E","L","S","E">>,
       <<"E","N","D">>,
       <<"W","I","T","H">>,
       <<"A","N","D">>,
       <<"O","R">>,
       <<"N","O","T">>,
       <<"I","N">>,
       <<"N","O","W">>,
       <<"I","N","T","E","R","V","A","L">>,
       <<"D","A","T","E","_","T","R","U","N","C">>,
       <<"A","V","G">>,
       <<"S","U","M">>,
       <<"C","O","U","N","T">>,
       <<"M","A","X">>,
       <<"M","I","N">>,
       <<"R","A","N","K">>,
       <<"O","V","E","R">>,
       <<"P","A","R","T","I","T","I","O","N"," ","B","Y">>,
       <<"R","O","W","S">>,
       <<"P","R","E","C","E","D","I","N","G">>,
       <<"D","A","T","E","_","S","U","B">>,
       <<"I","S","O","D","a","t","e">> >>

\* The alternatives of the operator expression, in its order; each follows "$".
mongoOperators ==
    << <<"m","a","t","c","h">>,
       <<"g","r","o","u","p">>,
       <<"p","r","o","j","e","c","t">>,
       <<"a","d","d","F","i","e","l","d","s">>,
       <<"l","o","o","k","u","p">>,
       <<"s","o","r","t">>,
       <<"l","i","m","i","t">>,
       <<"u","n","w","i","n","d">>,
       <<"c","o","n","d">>,
       <<"e","q">>,
       <<"n","e">>,
       <<"g","t">>,
       <<"g","t","e">>,
       <<"l","t">>,
       <<"l","t","e">>,
       <<"i","n">>,
       <<"s","u","m">>,
       <<"a","v","g">>,
       <<"m","a","x">>,
       <<"m","i","n">>,
       <<"d","a","t","e","T","o","S","t","r","i","n","g">>,
       <<"s","i","z","e">>,
       <<"s","u","b","t","r","a","c","t">>,
       <<"d","i","v","i","d","e">>,
       <<"l","i","t","e","r","a","l">>,
       <<"p","u","s","h">>,
       <<"n","e">>,
       <<"a","n","d">>,
       <<"o","r">>,
       <<"i","n">> >>

SpanComment == <<"<","s","p","a","n"," ","c","l","a","s","s","=","\"","t","o","k","e","n","-","c","o","m","m","e","n","t","\"",">">>

SpanString == <<"<","s","p","a","n"," ","c","l","a","s","s","=","\"","t","o","k","e","n","-","s","t","r","i","n","g","\"",">">>

SpanKeyword == <<"<","s","p","a","n"," ","c","l","a","s","s","=","\"","t","o","k","e","n","-","k","e","y","w","o","r","d","\"",">">>

SpanNumber == <<"<","s","p","a","n"," ","c","l","a","s","s","=","\"","t","o","k","e","n","-","n","u","m","b","e","r","\"",">">>

SpanBoolean == <<"<","s","p","a","n"," ","c","l","a","s","s","=","\"","t","o","k","e","n","-","b","o","o","l","e","a","n","\"",">">>

SpanClose == <<"<","/","s","p","a","n",">">>

EntAmp == <<"&","a","m","p",";">>

EntLt == <<"&","l","t",";">>

EntGt == <<"&","g","t",";">>

\* The tag a wrapping rule opens its match with.
OpenTag(rule) ==
    CASE rule = "comment" -> SpanComment
      [] rule = "single"  -> SpanString
      [] rule = "double"  -> SpanString
      [] rule = "keyword" -> SpanKeyword
      [] rule = "number"  -> SpanNumber
      [] rule = "boolean" -> SpanBoolean

\* /(--[^\n]*)/ at position i: the length of the match, 0 for none.
CommentMatch(s, i) ==
    IF MatchesAt(s, i, <<"-", "-">>) THEN 2 + RunUntil(s, i + 2, {"\n"}) ELSE 0

\* /('[^']*')/ and /("[^"]*")/ at position i, q the quote.
QuotedMatch(s, i, q) ==
    IF s[i] = q /\ \E j \in (i + 1)..Len(s) : s[j] = q
    THEN 2 + RunUntil(s, i + 1, {q})
    ELSE 0

\* /\b(SELECT|FROM|...)\b/i at position i: the first alternative that matches.
KeywordMatch(s, i) ==
    IF s[i] \notin WordChars \/ ~AtWordBoundary(s, i) THEN 0
    ELSE LET hits == {k \in 1..Len(keywords) :
                         /\ MatchesAtIgnoreCase(s, i, keywords[k])
                         /\ AtWordBoundary(s, i + Len(keywords[k]))}
         IN  IF hits = {} THEN 0 ELSE Len(keywords[Least(hits)])

\* The text the operator expression matches for alternative k.
WrappedOperator(k) ==
    SpanString \o <<"\"", "$">> \o mongoOperators[k] \o <<"\"">> \o SpanClose

\* /<span class="token-string">"(\$(?:match|...))"<\/span>/ at position i.
MongoMatch(s, i) ==
    IF s[i] # "<" THEN 0
    ELSE LET hits == {k \in 1..Len(mongoOperators) : MatchesAt(s, i, WrappedOperator(k))}
         IN  IF hits = {} THEN 0 ELSE Len(WrappedOperator(Least(hits)))

\* /\b(\d+(\.\d+)?)\b/ at position i: the digits, with a fraction when a word
\* boundary follows it, without when one follows the digits.
NumberMatch(s, i) ==
    IF s[i] \notin DigitChars \/ ~AtWordBoundary(s, i) THEN 0
    ELSE LET d == RunLen(s, i, DigitChars)
             f == IF i + d <= Len(s) /\ s[i + d] = "."
                  THEN RunLen(s, i + d + 1, DigitChars) ELSE 0
         IN  IF f > 0 /\ AtWordBoundary(s, i + d + 1 + f) THEN d + 1 + f
             ELSE IF AtWordBoundary(s, i + d) THEN d
             ELSE 0

\* /\b(true|false|null)\b/ at position i.
BooleanMatch(s, i) ==
    IF s[i] \notin {"t", "f", "n"} \/ ~AtWordBoundary(s, i) THEN 0
    ELSE IF MatchesAt(s, i, <<"t","r","u","e">>) /\ AtWordBoundary(s, i + 4) THEN 4
    ELSE IF MatchesAt(s, i, <<"f","a","l","s","e">>) /\ AtWordBoundary(s, i + 5) THEN 5
    ELSE IF MatchesAt(s, i, <<"n","u","l","l">>) /\ AtWordBoundary(s, i + 4) THEN 4
    ELSE 0

\* The length of a rule's match at position i, 0 for none.
MatchLen(rule, s, i) ==
    CASE rule = "amp"     -> IF s[i] = "&" THEN 1 ELSE 0
      [] rule = "lt"      -> IF s[i] = "<" THEN 1 ELSE 0
      [] rule = "gt"      -> IF s[i] = ">" THEN 1 ELSE 0
      [] rule = "comment" -> CommentMatch(s, i)
      [] rule = "single"  -> QuotedMatch(s, i, "'")
      [] rule = "double"  -> QuotedMatch(s, i, "\"")
      [] rule = "keyword" -> KeywordMatch(s, i)
      [] rule = "mongo"   -> MongoMatch(s, i)
      [] rule = "number"  -> NumberMatch(s, i)
      [] rule = "boolean" -> BooleanMatch(s, i)

\* What a rule puts in place of its match m: an escaping rule the entity, the
\* operator rule the match with the string tag swapped for the keyword tag,
\* every other rule the match wrapped in its own span.
Replacement(rule, m) ==
    CASE rule = "amp"   -> EntAmp
      [] rule = "lt"    -> EntLt
      [] rule = "gt"    -> EntGt
      [] rule = "mongo" -> SpanKeyword \o SubSeq(m, Len(SpanString) + 1, Len(m))
      [] OTHER          -> OpenTag(rule) \o m \o SpanClose

RECURSIVE ReplaceFrom(_, _, _, _)
\* String.prototype.replace with a g-flag expression, from position i on:
\* the leftmost match at or after i is replaced and the search resumes after
\* it.  starts holds every position at which the expression matches.
ReplaceFrom(rule, s, starts, i) ==
    LET ahead == {p \in starts : p >= i}
    IN  IF ahead = {} THEN SubSeq(s, i, Len(s))
        ELSE LET p == Least(ahead)
                 n == MatchLen(rule, s, p)
             IN  SubSeq(s, i, p - 1)
                     \o Replacement(rule, SubSeq(s, p, p + n - 1))
                     \o ReplaceFrom(rule, s, starts, p + n)

ApplyRule(rule, s) ==
    LET starts == {p \in 1..Len(s) : MatchLen(rule, s, p) > 0}
    IN  ReplaceFrom(rule, s, starts, 1)

\* The escaping of the three HTML metacharacters, & first.
EscapeHTML(s) == ApplyRule("gt", ApplyRule("lt", ApplyRule("amp", s)))

\* PrettyPrint with a catch block that drops the text: a fault C8 excludes.
PrettyPrintOrNothing(s) ==
    LET r == JSONParse(s)
    IN  IF r.ok THEN Stringify(r.val, 0) ELSE <<>>

\* The try/catch around the pretty-print: a text that parses is replaced by its
\* 2-space rendering, a parse that throws leaves the text as it is.
PrettyPrint(s) ==
    LET r == JSONParse(s)
    IN  IF r.ok THEN Stringify(r.val, 0) ELSE s

\* The text after trimming and, for text that looks like JSON, pretty-printing.
FormatStage(code) ==
    LET formattedCode == trim(code)
        isMongo == startsWith(formattedCode, <<"[">>) \/ startsWith(formattedCode, <<"{">>)
    IN  IF isMongo THEN PrettyPrint(formattedCode) ELSE formattedCode

\* The rules in the order the code applies them.
RuleOrder == <<"comment", "single", "double", "keyword", "mongo", "number", "boolean">>

RECURSIVE ApplyRules(_, _)
ApplyRules(rules, s) ==
    IF rules = <<>> THEN s ELSE ApplyRules(Tail(rules), ApplyRule(Head(rules), s))

highlightCode(code) == ApplyRules(RuleOrder, EscapeHTML(FormatStage(code)))

\* ------------------------------------------------------------------------
\* displayQueryResult
\* ------------------------------------------------------------------------

\* The ids of the seven elements displayQueryResult writes.
ResultElements ==
    {"confidenceValue", "complexityValue", "timeValue", "targetsValue",
     "generatedSQL", "reasoningText", "optimizationText"}

\* The value of a property that is not there.
undefined == [t |-> "undefined"]

IsNull(v) == v.t = "lit" /\ v.v = <<"n","u","l","l">>

IsTrue(v) == v.t = "lit" /\ v.v = <<"t","r","u","e">>

\* data.key for a parsed value that is not null: a member of an object, and
\* undefined on anything else.
Get(data, key) ==
    IF data.t = "obj" /\ \E n \in 1..Len(data.v) : data.v[n].k = key
    THEN SelectSeq(data.v, LAMBDA m : m.k = key)[1].v
    ELSE undefined

\* ToBoolean, as the ?: and || of the fallbacks apply it.
Truthy(v) ==
    CASE v.t = "undefined" -> FALSE
      [] v.t = "num" -> \E d \in Range(v.int) \cup Range(v.frac) : d # "0"
      [] v.t = "str" -> v.v # <<>>
      [] v.t = "lit" -> IsTrue(v)
      [] OTHER -> TRUE

RECURSIVE ToText(_), JoinTexts(_)

\* Array.prototype.join(","): null elements give the empty text.
JoinTexts(items) ==
    IF items = <<>> THEN <<>>
    ELSE (IF IsNull(Head(items)) THEN <<>> ELSE ToText(Head(items)))
         \o (IF Len(items) > 1 THEN <<",">> ELSE <<>>)
         \o JoinTexts(Tail(items))

\* ToString of a parsed value, as textContent and a template literal apply it.
ToText(v) ==
    CASE v.t = "str" -> v.v
      [] v.t = "num" -> NumberToString(v)
      [] v.t = "lit" -> v.v
      [] v.t = "obj" -> <<"[","o","b","j","e","c","t"," ","O","b","j","e","c","t","]">>
      [] v.t = "arr" -> JoinTexts(v.v)

RECURSIVE NatToText(_)
\* The decimal digits of a natural number.
NatToText(n) ==
    IF n < 10 THEN <<Digits[n + 1]>>
    ELSE NatToText(n \div 10) \o <<Digits[(n % 10) + 1]>>

\* A score the model computes exactly: between 0 and 1 with at most three decimals.
IsScore(v) ==
    /\ v.t = "num"
    /\ ~v.neg
    /\ Len(v.int) = 1
    /\ Len(v.frac) <= 3
    /\ (v.int = <<"1">> => \A d \in Range(v.frac) : d = "0")
    /\ v.int \in {<<"0">>, <<"1">>}

\* A score in thousandths.
Thousandths(v) ==
    LET f == [d \in 1..3 |-> IF d <= Len(v.frac) THEN DigitVal(v.frac[d]) ELSE 0]
    IN  1000 * DigitVal(v.int[1]) + 100 * f[1] + 10 * f[2] + f[3]

\* The thousandths k ending in 5 for which the double nearest k/1000, times 100,
\* lies below the half: toFixed(0) rounds these down and every other half up.
HalvesBelow == {145, 285, 565, 575}

\* (score * 100).toFixed(0) for a score of k thousandths.
toFixed0(k) ==
    IF k % 10 = 5 /\ k \in HalvesBelow THEN k \div 10 ELSE (k + 5) \div 10

\* `${(data.confidenceScore * 100).toFixed(0)}%` for a truthy score.
ConfidenceText(v) ==
    CASE IsScore(v)   -> NatToText(toFixed0(Thousandths(v))) \o <<"%">>
      [] IsTrue(v)  -> <<"1","0","0","%">>

NA == <<"N","/","A">>

NoReasoning == <<"N","o"," ","r","e","a","s","o","n","i","n","g"," ","p","r","o","v","i","d","e","d",".">>

NoQuery == <<"-","-"," ","N","o"," ","q","u","e","r","y"," ","g","e","n","e","r","a","t","e","d"," ","-","-">>

OptimizationLabel == <<"<","s","t","r","o","n","g",">","O","p","t","i","m","i","z","a","t","i","o","n"," ","A","p","p","l","i","e","d",":","<","/","s","t","r","o","n","g",">"," ">>

\* a || fallback, as text.
OrElse(v, fallback) == IF Truthy(v) THEN ToText(v) ELSE fallback

\* The message of the TypeError a property read on null raises.
NullReadError == "Cannot read properties of null (reading 'confidenceScore')"

\* The message of the TypeError highlightCode raises on a value with no trim.
TrimError == "code.trim is not a function"

\* The query of a response that conforms to the schema.
ResponseSQL == <<"S","E","L","E","C","T"," ","*"," ","F","R","O","M"," ","u","s","e","r","s"," ","W","H","E","R","E"," ","a","g","e"," ",">"," ","1","8"," ","-","-"," ","a","d","u","l","t","s">>

\* The queries the page's responses lead to.
PageQueries == {NoQuery, ResponseSQL}

\* highlightCode of the page's queries.
Highlighted == [q \in PageQueries |-> highlightCode(q)]

\* highlightCode(code), looked up where it is already known.
Highlight(code) == IF code \in PageQueries THEN Highlighted[code] ELSE highlightCode(code)

\* displayQueryResult(data), with the result elements in `present` in the
\* document and `shown` their content: the content afterwards and the message
\* of the error raised, "" for none.  Nothing is written when an element is
\* missing; the six text fields are written before the query is highlighted.
displayQueryResult(present, shown, data) ==
    IF present # ResultElements THEN [shown |-> shown, error |-> ""]
    ELSE IF IsNull(data) THEN [shown |-> shown, error |-> NullReadError]
    ELSE
    LET score    == Get(data, <<"c","o","n","f","i","d","e","n","c","e","S","c","o","r","e">>)
        sql      == Get(data, <<"g","e","n","e","r","a","t","e","d","S","Q","L">>)
        opt      == Get(data, <<"o","p","t","i","m","i","z","a","t","i","o","n","A","p","p","l","i","e","d">>)
        six      ==
            [shown EXCEPT
                !.confidenceValue  = IF Truthy(score) THEN ConfidenceText(score) ELSE NA,
                !.complexityValue  = OrElse(Get(data, <<"q","u","e","r","y","C","o","m","p","l","e","x","i","t","y">>), NA),
                !.timeValue        = OrElse(Get(data, <<"e","s","t","i","m","a","t","e","d","E","x","e","c","u","t","i","o","n","T","i","m","e">>), NA),
                !.targetsValue     = OrElse(Get(data, <<"t","a","r","g","e","t","D","a","t","a","b","a","s","e","s">>), NA),
                !.reasoningText    = OrElse(Get(data, <<"q","u","e","r","y","R","e","a","s","o","n","i","n","g">>), NoReasoning),
                !.optimizationText = IF Truthy(opt) THEN OptimizationLabel \o ToText(opt)
                                     ELSE <<>>]
    IN  IF Truthy(sql) /\ sql.t # "str"
        THEN [shown |-> six, error |-> TrimError]
        ELSE [shown |-> [six EXCEPT !.generatedSQL =
                            Highlight(IF Truthy(sql) THEN sql.v ELSE NoQuery)],
              error |-> ""]

\* ------------------------------------------------------------------------
\* The page: state
\* ------------------------------------------------------------------------

VARIABLES
    queryText,        \* the value of the #queryInput textarea
    warned,           \* #queryInput carries the warning border and shadow
    activeDbs,        \* the engines whose chip has the class "active"
    inFlight,         \* generateContent calls that have not returned yet
    buttonDisabled,   \* the disabled flag of the submit button
    loadingHidden,    \* #queryLoading has the class "hidden"
    buttonTextHidden, \* #queryButtonText has the class "hidden"
    resultHidden,     \* #queryResult has the class "hidden"
    lastAlert,        \* what the latest executeQuery alerted, "" when it alerted nothing
    analysis,         \* the content of #queryAnalysis: the page's own, or an error message
    elements,         \* the result elements that are in the document
    display,          \* the content of each result element
    analysisHolds,    \* the result elements that lie inside #queryAnalysis
    demoTimers,       \* pending 500 ms timers of loadDemoQuery
    copyLabel,        \* the text of #copyText
    copyIcon,         \* the content of #copyIcon
    copyColor,        \* the inline colour of #copyButton
    clipboardWrites,  \* clipboard writes that have not settled yet
    copyTimers,       \* pending 2000 ms timers of the copy button, oldest first
    input,            \* the result handed to the formatter (formatter runs only)
    rendered,         \* the formatter has run (formatter runs only)
    renderError       \* the message of the error the formatter raised, "" for none

pageVars ==
    <<queryText, warned, activeDbs, inFlight, buttonDisabled, loadingHidden,
      buttonTextHidden, resultHidden, lastAlert, analysis, elements, display,
      analysisHolds, demoTimers>>

copyVars == <<copyLabel, copyIcon, copyColor, clipboardWrites, copyTimers>>

formatVars == <<input, rendered, renderError>>

vars == <<pageVars, copyVars, formatVars>>

\* ------------------------------------------------------------------------
\* Bounds and inputs
\* ------------------------------------------------------------------------

\* Calls in flight at once.
MaxInFlight == 2

\* Pending loadDemoQuery timers at once.
MaxDemoTimers == 1

\* Unsettled clipboard writes at once.
MaxClipboardWrites == 2

\* Pending copy-button timers at once.
MaxCopyTimers == 3

\* Tokens in a generated query text.
MaxTokens == 3

\* The engines of the chips: a relational one and the document one of the
\* four the page offers, which executeQuery tells apart only by their number.
Engines == {"postgresql", "mongodb"}

\* What the user may leave in the textarea by typing or pasting.
TypedTexts ==
    { <<>>,
      <<" "," ">>,
      <<"t","o","p"," ","u","s","e","r","s">>,
      <<"d","r","o","p"," ","o","l","d"," ","u","s","e","r","s">>,
      <<"D","E","L","E","T","E"," ","u","s","e","r","s">> }

\* The paragraphs of the demo queries, quotation marks included.
DemoParagraphs ==
    { <<"\"","S","h","o","w"," ","t","o","p"," ","u","s","e","r","s","\"">>,
      <<"\"","C","o","u","n","t"," ","o","r","d","e","r","s"," ","b","y"," ","c","i","t","y","\"">> }

\* What a generateContent call may come back with: a rejection carrying a
\* message, or a response whose text is the body.
Responses ==
    << [rejected |-> TRUE,  message |-> "fetch failed", text |-> <<>>],
       [rejected |-> FALSE, message |-> "", text |-> <<"S","o","r","r","y">>],
       [rejected |-> FALSE, message |-> "", text |-> <<"n","u","l","l">>],
       [rejected |-> FALSE, message |-> "", text |->
           <<"{","\"","q","u","e","r","y","C","o","m","p","l","e","x","i","t","y","\"",":"," ","\"","T","i","e","r"," ","2","\"",","," ","\"","e","s","t","i","m","a","t","e","d","E","x","e","c","u","t","i","o","n","T","i","m","e","\"",":"," ","\"","1",".","5","s","\"",","," ","\"","t","a","r","g","e","t","D","a","t","a","b","a","s","e","s","\"",":"," ","\"","p","o","s","t","g","r","e","s","q","l","\"",","," ","\"","c","o","n","f","i","d","e","n","c","e","S","c","o","r","e","\"",":"," ","0",".","8","7","3",","," ","\"","g","e","n","e","r","a","t","e","d","S","Q","L","\"",":"," ","\"","S","E","L","E","C","T"," ","*"," ","F","R","O","M"," ","u","s","e","r","s"," ","W","H","E","R","E"," ","a","g","e"," ",">"," ","1","8"," ","-","-"," ","a","d","u","l","t","s","\"",","," ","\"","q","u","e","r","y","R","e","a","s","o","n","i","n","g","\"",":"," ","\"","F","i","l","t","e","r","s"," ","u","s","e","r","s"," ","b","y"," ","a","g","e",".","\"",","," ","\"","o","p","t","i","m","i","z","a","t","i","o","n","A","p","p","l","i","e","d","\"",":"," ","\"","U","s","e","s"," ","t","h","e"," ","a","g","e"," ","i","n","d","e","x",".","\"","}">>],
       [rejected |-> FALSE, message |-> "", text |->
           <<"{","\"","g","e","n","e","r","a","t","e","d","S","Q","L","\"",":"," ","5",","," ","\"","q","u","e","r","y","R","e","a","s","o","n","i","n","g","\"",":"," ","\"","C","o","u","n","t","s"," ","r","o","w","s",".","\"","}">>],
       [rejected |-> FALSE, message |-> "", text |-> <<"{", "}">>] >>

\* The message of the SyntaxError JSON.parse raises.
SyntaxErrorMessage == "Unexpected token in JSON"

\* JSON.parse(response.text) of each response.
ParsedResponse == [n \in 1..Len(Responses) |-> JSONParse(Responses[n].text)]

\* The result elements as the page loads them.
InitialDisplay == [e \in ResultElements |-> <<>>]

\* The four metrics of the analysis grid.
Metrics == {"confidenceValue", "complexityValue", "timeValue", "targetsValue"}

\* {} as data.
EmptyObject == [t |-> "obj", v |-> <<>>]

\* ------------------------------------------------------------------------
\* The page: handlers
\* ------------------------------------------------------------------------

\* #queryAnalysis as the page loads it.
OwnAnalysis == [error |-> FALSE, message |-> ""]

InitPage ==
    /\ queryText = <<>>
    /\ warned = FALSE
    /\ activeDbs \in SUBSET Engines
    /\ inFlight = 0
    /\ buttonDisabled = FALSE
    /\ loadingHidden = TRUE
    /\ buttonTextHidden = FALSE
    /\ resultHidden = TRUE
    /\ lastAlert = ""
    /\ analysis = OwnAnalysis
    /\ elements = ResultElements
    /\ display = InitialDisplay
    /\ analysisHolds \in {{}, Metrics}
    /\ demoTimers = 0

InitCopy ==
    /\ copyLabel = "Copy"
    /\ copyIcon = "original"
    /\ copyColor = ""
    /\ clipboardWrites = 0
    /\ copyTimers = <<>>

\* No result is being formatted on its own.
InitIdle ==
    /\ input = [kind |-> "none", a |-> 0, b |-> 0]
    /\ rendered = FALSE
    /\ renderError = ""

Init == InitPage /\ InitCopy /\ InitIdle

\* A click, Space or Enter on the chip of engine db.
toggleDbChip(db) ==
    /\ activeDbs' = IF db \in activeDbs THEN activeDbs \ {db} ELSE activeDbs \cup {db}
    /\ UNCHANGED <<queryText, warned, inFlight, buttonDisabled, loadingHidden,
                   buttonTextHidden, resultHidden, lastAlert, analysis, elements,
                   display, analysisHolds, demoTimers>>
    /\ UNCHANGED <<copyVars, formatVars>>

\* The words validateQueryInput looks for.
MutatingWords ==
    { <<"d","e","l","e","t","e">>,
      <<"d","r","o","p">>,
      <<"t","r","u","n","c","a","t","e">>,
      <<"u","p","d","a","t","e">>,
      <<"i","n","s","e","r","t">> }

\* !isReadOnly of validateQueryInput for the text `query`.
IsMutating(query) == \E w \in MutatingWords : includes(toLowerCase(query), w)

\* The user edits the textarea to hold `text`; the input event runs
\* validateQueryInput.
UserInput(text) ==
    /\ text # queryText
    /\ queryText' = text
    /\ warned' = IsMutating(text)
    /\ UNCHANGED <<activeDbs, inFlight, buttonDisabled, loadingHidden,
                   buttonTextHidden, resultHidden, lastAlert, analysis, elements,
                   display, analysisHolds, demoTimers>>
    /\ UNCHANGED <<copyVars, formatVars>>

\* replace(/"/g, '') of loadDemoQuery.
StripQuotes(text) == SelectSeq(text, LAMBDA c : c # "\"")

\* A click on the demo query whose paragraph is `paragraph`.
loadDemoQuery(paragraph) ==
    /\ demoTimers < MaxDemoTimers
    /\ queryText' = StripQuotes(paragraph)
    /\ demoTimers' = demoTimers + 1
    /\ UNCHANGED <<warned, activeDbs, inFlight, buttonDisabled, loadingHidden,
                   buttonTextHidden, resultHidden, lastAlert, analysis, elements,
                   display, analysisHolds>>
    /\ UNCHANGED <<copyVars, formatVars>>

EnterQueryAlert == "Please enter a query"

SelectDatabaseAlert == "Please select at least one database."

\* The first validation without trim(): a fault C1 excludes.
IsEmptyQueryUntrimmed(text) == text = <<>>

\* !queryInput || !queryInput.trim()
IsEmptyQuery(text) == text = <<>> \/ trim(text) = <<>>

\* The finally block without the line that enables the button: a fault C3
\* excludes.
HideLoadingStateOnly ==
    /\ buttonTextHidden' = FALSE
    /\ loadingHidden' = TRUE
    /\ UNCHANGED buttonDisabled

\* The finally block of executeQuery.
HideLoadingState ==
    /\ buttonTextHidden' = FALSE
    /\ loadingHidden' = TRUE
    /\ buttonDisabled' = FALSE

\* executeQuery up to its await: the two validations, then the loading state
\* and the call.
executeQuery ==
    IF IsEmptyQuery(queryText)
    THEN /\ lastAlert' = EnterQueryAlert
         /\ UNCHANGED <<inFlight, buttonDisabled, loadingHidden, buttonTextHidden, resultHidden>>
    ELSE IF activeDbs = {}
    THEN /\ lastAlert' = SelectDatabaseAlert
         /\ UNCHANGED <<inFlight, buttonDisabled, loadingHidden, buttonTextHidden, resultHidden>>
    ELSE /\ inFlight < MaxInFlight
         /\ lastAlert' = ""
         /\ buttonTextHidden' = TRUE
         /\ loadingHidden' = FALSE
         /\ buttonDisabled' = TRUE
         /\ resultHidden' = TRUE
         /\ inFlight' = inFlight + 1

\* A click on the submit button, which a disabled button does not deliver.
ClickExecute ==
    /\ ~buttonDisabled
    /\ executeQuery
    /\ UNCHANGED <<queryText, warned, activeDbs, analysis, elements, display,
                   analysisHolds, demoTimers>>
    /\ UNCHANGED <<copyVars, formatVars>>

\* Ctrl+Enter in the textarea.
CtrlEnter ==
    /\ executeQuery
    /\ UNCHANGED <<queryText, warned, activeDbs, analysis, elements, display,
                   analysisHolds, demoTimers>>
    /\ UNCHANGED <<copyVars, formatVars>>

\* A 500 ms timer of loadDemoQuery fires.
DemoTimerFires ==
    /\ demoTimers > 0
    /\ demoTimers' = demoTimers - 1
    /\ executeQuery
    /\ UNCHANGED <<queryText, warned, activeDbs, analysis, elements, display,
                   analysisHolds>>
    /\ UNCHANGED <<copyVars, formatVars>>

\* The catch block of executeQuery for an error with message `message`, the
\* result elements holding `shown` when it was raised.  Writing innerHTML of
\* #queryAnalysis removes the elements inside it from the document.
CatchBlock(message, shown) ==
    LET remaining == elements \ analysisHolds
    IN  /\ resultHidden' = FALSE
        /\ analysis' = [error |-> TRUE, message |-> message]
        /\ elements' = remaining
        /\ display' = displayQueryResult(remaining, shown, EmptyObject).shown

\* The try block of executeQuery from its await on, generateContent having
\* settled as Responses[n]: what the result elements hold at its end and the
\* message of the error it raised, "" for none.
TryBlock(n) ==
    IF Responses[n].rejected
    THEN [shown |-> display, error |-> Responses[n].message]
    ELSE IF ~ParsedResponse[n].ok
    THEN [shown |-> display, error |-> SyntaxErrorMessage]
    ELSE displayQueryResult(elements, display, ParsedResponse[n].val)

\* What follows the try block: the catch block when it raised an error.
AfterTry(outcome) ==
    IF outcome.error # ""
    THEN CatchBlock(outcome.error, outcome.shown)
    ELSE /\ resultHidden' = FALSE
         /\ display' = outcome.shown
         /\ UNCHANGED <<analysis, elements>>

\* executeQuery from its await on: generateContent settles as Responses[n].
CallReturns(n) ==
    /\ inFlight > 0
    /\ inFlight' = inFlight - 1
    /\ AfterTry(TryBlock(n))
    /\ HideLoadingState
    /\ UNCHANGED <<queryText, warned, activeDbs, lastAlert, analysisHolds, demoTimers>>
    /\ UNCHANGED <<copyVars, formatVars>>

\* Escape anywhere in the document.
Escape ==
    /\ queryText' = <<>>
    /\ resultHidden' = TRUE
    /\ UNCHANGED <<warned, activeDbs, inFlight, buttonDisabled, loadingHidden,
                   buttonTextHidden, lastAlert, analysis, elements, display,
                   analysisHolds, demoTimers>>
    /\ UNCHANGED <<copyVars, formatVars>>

Next ==
    \/ \E db \in Engines : toggleDbChip(db)
    \/ \E text \in TypedTexts : UserInput(text)
    \/ \E paragraph \in DemoParagraphs : loadDemoQuery(paragraph)
    \/ ClickExecute
    \/ CtrlEnter
    \/ DemoTimerFires
    \/ \E n \in 1..Len(Responses) : CallReturns(n)
    \/ Escape

Spec == Init /\ [][Next]_vars

\* ------------------------------------------------------------------------
\* The copy button
\* ------------------------------------------------------------------------

\* A click on #copyButton: the write to the clipboard starts.
CopyClick ==
    /\ "generatedSQL" \in elements
    /\ clipboardWrites < MaxClipboardWrites
    /\ clipboardWrites' = clipboardWrites + 1
    /\ UNCHANGED <<copyLabel, copyIcon, copyColor, copyTimers>>
    /\ UNCHANGED <<pageVars, formatVars>>

\* A write to the clipboard succeeds: the then callback.
ClipboardResolves ==
    /\ clipboardWrites > 0
    /\ Len(copyTimers) < MaxCopyTimers
    /\ clipboardWrites' = clipboardWrites - 1
    /\ copyLabel' = "Copied!"
    /\ copyIcon' = "check"
    /\ copyColor' = "var(--success)"
    /\ copyTimers' = Append(copyTimers, "Copied!")
    /\ UNCHANGED <<pageVars, formatVars>>

\* A write to the clipboard is rejected: the catch callback.
ClipboardRejects ==
    /\ clipboardWrites > 0
    /\ Len(copyTimers) < MaxCopyTimers
    /\ clipboardWrites' = clipboardWrites - 1
    /\ copyLabel' = "Failed"
    /\ copyTimers' = Append(copyTimers, "Failed")
    /\ UNCHANGED <<copyIcon, copyColor>>
    /\ UNCHANGED <<pageVars, formatVars>>

\* The oldest 2000 ms timer fires: the one of a success restores label, icon
\* and colour, the one of a failure the label.
CopyTimerFires ==
    /\ copyTimers # <<>>
    /\ copyTimers' = Tail(copyTimers)
    /\ copyLabel' = "Copy"
    /\ IF Head(copyTimers) = "Copied!"
       THEN copyIcon' = "original" /\ copyColor' = ""
       ELSE UNCHANGED <<copyIcon, copyColor>>
    /\ UNCHANGED clipboardWrites
    /\ UNCHANGED <<pageVars, formatVars>>

NextCopy ==
    \/ CopyClick
    \/ ClipboardResolves
    \/ ClipboardRejects
    \/ CopyTimerFires

SpecCopy == Init /\ [][NextCopy]_vars

\* ------------------------------------------------------------------------
\* The formatter on its own
\* ------------------------------------------------------------------------

\* The pieces the generated query texts are made of.
Tokens ==
    << <<"[">>,
       <<"]">>,
       <<"{","\"","a","\"",":">>,
       <<"}">>,
       <<"1">>,
       <<"\"","$","i","n","\"">>,
       <<" ">>,
       <<"<", "&", ">">> >>

RECURSIVE TokenText(_, _)
\* The text of n tokens that m numbers, a digit of m to the base Len(Tokens)
\* for each token.
TokenText(n, m) ==
    IF n = 0 THEN <<>>
    ELSE Tokens[(m % Len(Tokens)) + 1] \o TokenText(n - 1, m \div Len(Tokens))

RECURSIVE TokenTexts(_)
\* How many texts of n tokens there are.
TokenTexts(n) == IF n = 0 THEN 1 ELSE Len(Tokens) * TokenTexts(n - 1)

\* Query texts of their own: SQL with a comment, SQL with a literal, a
\* pipeline, malformed JSON, padded JSON with escapes, nested JSON with
\* index-like keys, a statement in lower case.
Examples ==
    << ResponseSQL,
       <<"S","E","L","E","C","T"," ","n","a","m","e"," ","F","R","O","M"," ","u","s","e","r","s"," ","W","H","E","R","E"," ","c","i","t","y"," ","="," ","'","O","s","l","o","'"," ","L","I","M","I","T"," ","1","0">>,
       <<"{","\"","$","m","a","t","c","h","\"",":"," ","{","\"","a","g","e","\"",":"," ","{","\"","$","g","t","\"",":"," ","1","8","}","}","}">>,
       <<"{","\"","a","\"",":"," ","}">>,
       <<" "," ","[","1",","," ","2",".","5","0",","," ","t","r","u","e",","," ","n","u","l","l",","," ","\"","x","<","y","\"","]"," "," ">>,
       <<"{","\"","b","\"",":","[","1",",","{","\"","c","\"",":","[","]","}","]",",","\"","2","\"",":","{","}",",","\"","1","\"",":","\"","k","\"","}">>,
       <<"s","e","l","e","c","t"," ","c","o","u","n","t","(","i","d",")"," ","f","r","o","m"," ","o","r","d","e","r","s">> >>

\* A pipeline stage with operator k of mongoOperators and a field beside it.
OperatorDocument(k) ==
    <<"{","\"","$">> \o mongoOperators[k] \o <<"\"",":"," ","{","\"","a","g","e","\"",":"," ","1","8","}","}">>

\* The seven properties of a result, and a value for each.
FieldNames ==
    << <<"q","u","e","r","y","C","o","m","p","l","e","x","i","t","y">>,
       <<"e","s","t","i","m","a","t","e","d","E","x","e","c","u","t","i","o","n","T","i","m","e">>,
       <<"t","a","r","g","e","t","D","a","t","a","b","a","s","e","s">>,
       <<"c","o","n","f","i","d","e","n","c","e","S","c","o","r","e">>,
       <<"g","e","n","e","r","a","t","e","d","S","Q","L">>,
       <<"q","u","e","r","y","R","e","a","s","o","n","i","n","g">>,
       <<"o","p","t","i","m","i","z","a","t","i","o","n","A","p","p","l","i","e","d">> >>

Str(text) == [t |-> "str", v |-> text]

\* The number k / 1000 as JSON.parse yields it from a text with three decimals.
ScoreValue(k) ==
    [t |-> "num", neg |-> FALSE, int |-> NatToText(k \div 1000),
     frac |-> <<Digits[((k \div 100) % 10) + 1], Digits[((k \div 10) % 10) + 1], Digits[(k % 10) + 1]>>]

FieldValues ==
    << Str(<<"T","i","e","r"," ","1">>),
       Str(<<"1",".","5","s">>),
       Str(<<"m","y","s","q","l">>),
       ScoreValue(500),
       Str(<<"S","E","L","E","C","T"," ","1">>),
       Str(<<"R","e","a","d","s"," ","o","n","e"," ","r","o","w",".">>),
       Str(<<"N","o","n","e"," ","n","e","e","d","e","d",".">>) >>

RECURSIVE MembersFrom(_, _)
\* The members a mask selects among the properties f..7: bit f - 1 of the mask
\* stands for property f.
MembersFrom(mask, f) ==
    IF f > Len(FieldNames) THEN <<>>
    ELSE (IF mask % 2 = 1 THEN <<[k |-> FieldNames[f], v |-> FieldValues[f]]>> ELSE <<>>)
         \o MembersFrom(mask \div 2, f + 1)

Obj(members) == [t |-> "obj", v |-> members]

\* The thousandths a score is drawn from.
Scores == 0..1000

\* What the formatter is run on: a result with a score alone, a result with
\* some of its seven properties, a result with a query text alone.
FormatInputs ==
    [kind : {"score"}, a : Scores, b : {0}]
        \cup [kind : {"fields"}, a : 0..127, b : {0}]
        \cup {[kind |-> "query", a |-> n, b |-> m] :
                 n \in 0..MaxTokens, m \in 0..(TokenTexts(MaxTokens) - 1)}
        \cup [kind : {"example"}, a : 1..Len(Examples), b : {0}]
        \cup [kind : {"operator"}, a : 1..Len(mongoOperators), b : {0}]

\* The query text of an input that carries one.
QueryOf(inp) ==
    CASE inp.kind = "query"    -> TokenText(inp.a, inp.b)
      [] inp.kind = "example"  -> Examples[inp.a]
      [] inp.kind = "operator" -> OperatorDocument(inp.a)

\* The parsed result an input stands for.
DataOf(inp) ==
    CASE inp.kind = "score"  -> Obj(<<[k |-> FieldNames[4], v |-> ScoreValue(inp.a)]>>)
      [] inp.kind = "fields" -> Obj(MembersFrom(inp.a, 1))
      [] OTHER               -> Obj(<<[k |-> FieldNames[5], v |-> Str(QueryOf(inp))]>>)

InitFormat ==
    /\ InitCopy
    /\ queryText = <<>>
    /\ warned = FALSE
    /\ activeDbs = {}
    /\ inFlight = 0
    /\ buttonDisabled = FALSE
    /\ loadingHidden = TRUE
    /\ buttonTextHidden = FALSE
    /\ resultHidden = TRUE
    /\ lastAlert = ""
    /\ analysis = OwnAnalysis
    /\ elements = ResultElements
    /\ display = InitialDisplay
    /\ analysisHolds = {}
    /\ demoTimers = 0
    /\ input \in {inp \in FormatInputs : inp.kind = "query" => inp.b < TokenTexts(inp.a)}
    /\ rendered = FALSE
    /\ renderError = ""

\* displayQueryResult runs on the result.
Render ==
    /\ ~rendered
    /\ input.kind # "none"
    /\ LET result == displayQueryResult(elements, display, DataOf(input))
       IN  /\ display' = result.shown
           /\ renderError' = result.error
    /\ rendered' = TRUE
    /\ UNCHANGED <<queryText, warned, activeDbs, inFlight, buttonDisabled,
                   loadingHidden, buttonTextHidden, resultHidden, lastAlert,
                   analysis, elements, analysisHolds, demoTimers, input>>
    /\ UNCHANGED copyVars

NextFormat == Render

SpecFormat == InitFormat /\ [][NextFormat]_vars

\* ------------------------------------------------------------------------
\* Properties of the page
\* ------------------------------------------------------------------------

\* Text that is empty or whitespace only.
Blank(text) == \A p \in 1..Len(text) : text[p] \in Whitespace

\* A submission: the button, the key chord, or the timer of a demo load.
Submission == ClickExecute \/ CtrlEnter \/ DemoTimerFires

\* C1: from a state whose question text is empty or whitespace only, or in
\* which no engine chip is selected, no step starts a call, and a submission
\* alerts one of the two warnings and leaves the loading state untouched.
C1_InvalidSubmissionRejected ==
    [][(Blank(queryText) \/ activeDbs = {}) =>
          /\ inFlight' <= inFlight
          /\ Submission =>
                /\ lastAlert' \in {EnterQueryAlert, SelectDatabaseAlert}
                /\ UNCHANGED <<buttonDisabled, loadingHidden, buttonTextHidden, resultHidden>>]_vars

\* C1 witness: whitespace-only text was submitted with an engine selected and
\* the submission was answered by the warning, no call started.
C1_WhitespaceRejected ==
    /\ queryText # <<>>
    /\ Blank(queryText)
    /\ activeDbs # {}
    /\ lastAlert = EnterQueryAlert
    /\ inFlight = 0
    /\ ~buttonDisabled

\* C2: at most one call is in flight, and while one is the submit button is
\* disabled.
C2_AtMostOneInFlight ==
    /\ inFlight <= 1
    /\ inFlight > 0 => buttonDisabled

\* C3: every step in which a call completes leaves the button enabled, the
\* busy indicator hidden and the button text shown, and with no call in
\* flight the button is enabled.
C3_GuaranteedRelease ==
    /\ [](inFlight = 0 => ~buttonDisabled /\ loadingHidden /\ ~buttonTextHidden)
    /\ [][inFlight' < inFlight =>
             ~buttonDisabled' /\ loadingHidden' /\ ~buttonTextHidden']_vars

\* C3 witness: a call completed with an exception raised while rendering, and
\* the button is enabled again.
C3_ReleasedAfterRenderingError ==
    /\ inFlight = 0
    /\ analysis.error
    /\ analysis.message = TrimError
    /\ ~buttonDisabled
    /\ loadingHidden

\* What every result element holds after an all-absent result.
Fallbacks ==
    [confidenceValue  |-> NA,
     complexityValue  |-> NA,
     timeValue        |-> NA,
     targetsValue     |-> NA,
     reasoningText    |-> NoReasoning,
     optimizationText |-> <<>>,
     generatedSQL     |-> Highlight(NoQuery)]

\* The calls that fail: a rejection, or a text that is not JSON.
FailingResponses ==
    {n \in 1..Len(Responses) : Responses[n].rejected \/ ~ParsedResponse[n].ok}

\* C4: a step in which a call fails leaves the result container visible, the
\* error message with the error's text shown, and every one of the seven
\* result elements in the document holding its fallback.
C4_FailureResetsEveryField ==
    [][\A n \in FailingResponses :
          CallReturns(n) =>
              /\ ~resultHidden'
              /\ analysis'.error
              /\ analysis'.message =
                    (IF Responses[n].rejected THEN Responses[n].message ELSE SyntaxErrorMessage)
              /\ elements' = ResultElements
              /\ display' = Fallbacks]_vars

\* C10: the warning style is on the question input exactly when its text
\* contains one of the five words.
C10_AdvisoryTracksText == warned <=> IsMutating(queryText)

\* ------------------------------------------------------------------------
\* Properties of the formatter
\* ------------------------------------------------------------------------

\* The inputs that carry a query text.
HasQuery == input.kind \in {"query", "example", "operator"}

\* C5: a score that is present is shown as score * 100 rounded to the nearest
\* whole number and "%", the boundary values 0 and 1 included, and "N/A" is
\* shown when the score is absent.
C5_ScoreShownAsPercentage ==
    /\ (rendered /\ input.kind = "score") =>
          \E pct \in 0..100 :
              /\ 10 * pct - input.a \in -5..5
              /\ display.confidenceValue = NatToText(pct) \o <<"%">>
    /\ (rendered /\ input.kind = "fields" /\ (input.a \div 8) % 2 = 0) =>
          display.confidenceValue = NA

\* The five opening tags.
OpenTags == {SpanComment, SpanString, SpanKeyword, SpanNumber, SpanBoolean}

\* The positions of html at which a whole opening tag stands.
OpensIn(html) == {p \in 1..Len(html) : \E tag \in OpenTags : MatchesAt(html, p, tag)}

\* The positions of html at which a whole closing tag stands.
ClosesIn(html) == {p \in 1..Len(html) : MatchesAt(html, p, SpanClose)}

\* Every "<" of html starts a whole tag, and the tags alternate between
\* opening and closing: no tag is broken and no span lies in or across another.
IntactSpans(html) ==
    LET opens  == OpensIn(html)
        closes == ClosesIn(html)
        tags   == opens \cup closes
    IN  /\ {p \in 1..Len(html) : html[p] = "<"} = tags
        /\ \A p \in opens :
              \E q \in closes : q > p /\ \A r \in tags : ~(p < r /\ r < q)
        /\ \A q \in closes :
              \E p \in opens : p < q /\ \A r \in tags : ~(p < r /\ r < q)

\* C6: in the highlighted text of every query every inserted tag is intact
\* and the spans do not overlap.
C6_MarkupStaysIntact ==
    (rendered /\ HasQuery /\ renderError = "") => IntactSpans(display.generatedSQL)

\* C7: a quoted operator of the vocabulary is shown as one keyword span
\* around the quoted token, with no string span around it and no span in it,
\* and the quoted field beside it as a string span.
C7_OperatorInKeywordStyle ==
    (rendered /\ input.kind = "operator") =>
        LET quoted == <<"\"", "$">> \o mongoOperators[input.a] \o <<"\"">>
        IN  /\ includes(display.generatedSQL, SpanKeyword \o quoted \o SpanClose)
            /\ ~includes(display.generatedSQL, SpanString \o <<"\"", "$">>)
            /\ includes(display.generatedSQL,
                        SpanString \o <<"\"","a","g","e","\"">> \o SpanClose)

RECURSIVE StripTags(_)
\* html without its tags, whole tags going until none is left.
StripTags(html) ==
    LET tags == OpensIn(html) \cup ClosesIn(html)
    IN  IF tags = {} THEN html
        ELSE LET p   == Least(tags)
                 tag == CHOOSE g \in OpenTags \cup {SpanClose} : MatchesAt(html, p, g)
             IN  StripTags(SubSeq(html, 1, p - 1) \o SubSeq(html, p + Len(tag), Len(html)))

RECURSIVE Unescape(_, _, _, _)
\* The text from position i on with each entity ent replaced by character ch.
Unescape(text, ent, ch, i) ==
    LET hits == {p \in i..Len(text) : MatchesAt(text, p, ent)}
    IN  IF hits = {} THEN SubSeq(text, i, Len(text))
        ELSE SubSeq(text, i, Least(hits) - 1) \o <<ch>>
                 \o Unescape(text, ent, ch, Least(hits) + Len(ent))

\* The text a reader sees in html.
VisibleText(html) ==
    Unescape(Unescape(Unescape(StripTags(html), EntLt, "<", 1), EntGt, ">", 1), EntAmp, "&", 1)

\* Whether a trimmed text looks like JSON.
LooksLikeJSON(text) == text # <<>> /\ text[1] \in {"[", "{"}

\* The text that is to be highlighted for a trimmed text that looks like JSON:
\* its rendering with an indentation of two when it parses, itself otherwise.
ExpectedText(text) ==
    IF JSONParse(text).ok THEN Stringify(JSONParse(text).val, 0) ELSE text

\* C8: for a query whose trimmed text begins with [ or {, nothing is raised,
\* the text shown is the 2-space-indented rendering when it parses and the
\* trimmed text itself when it does not, escaped and with the token rules
\* applied, and the six other fields are rendered.
C8_JSONLookingTextNeverRaises ==
    (rendered /\ HasQuery /\ LooksLikeJSON(trim(QueryOf(input)))) =>
        /\ renderError = ""
        /\ VisibleText(display.generatedSQL) = ExpectedText(trim(QueryOf(input)))
        /\ display.generatedSQL =
              ApplyRules(RuleOrder, EscapeHTML(ExpectedText(trim(QueryOf(input)))))
        /\ \A f \in ResultElements \ {"generatedSQL"} : display[f] = Fallbacks[f]

\* C8 witness: malformed text that looks like JSON was rendered without an
\* error, unchanged but for the string span the rules put around its key.
C8_MalformedTextRendered ==
    /\ rendered
    /\ HasQuery
    /\ LooksLikeJSON(trim(QueryOf(input)))
    /\ ~JSONParse(trim(QueryOf(input))).ok
    /\ renderError = ""
    /\ includes(display.generatedSQL, SpanString)
    /\ display.reasoningText = NoReasoning

\* ------------------------------------------------------------------------
\* Properties of the copy button
\* ------------------------------------------------------------------------

\* C9: while the timer of the latest copy action is pending the label shows
\* that action's acknowledgment, and with no timer pending the label is "Copy".
C9_AcknowledgmentStaysForItsDelay ==
    /\ copyTimers # <<>> => copyLabel = copyTimers[Len(copyTimers)]
    /\ copyTimers = <<>> => copyLabel = "Copy"

\* ------------------------------------------------------------------------
\* Properties of the display across submissions
\* ------------------------------------------------------------------------

\* The calls that succeed: a text that parses and a result that renders
\* without an error.
SucceedingResponses ==
    {n \in 1..Len(Responses) :
        /\ ~Responses[n].rejected
        /\ ParsedResponse[n].ok
        /\ ~IsNull(ParsedResponse[n].val)
        /\ LET sql == Get(ParsedResponse[n].val, FieldNames[5])
           IN  ~Truthy(sql) \/ sql.t = "str"}

\* What the seven result elements hold when the result of response n alone
\* is displayed.
ResultDisplay(n) ==
    displayQueryResult(ResultElements, InitialDisplay, ParsedResponse[n].val).shown

\* C11: a step in which a call succeeds, submitted with no other call in
\* flight (the button is still disabled for it), leaves the seven result
\* elements in the document holding the fields of that result, and no error
\* message of an earlier failure in the analysis area.
C11_DisplayShowsLatestResult ==
    [][\A n \in SucceedingResponses :
          (inFlight = 1 /\ buttonDisabled /\ CallReturns(n)) =>
              /\ ~analysis'.error
              /\ elements' = ResultElements
              /\ display' = ResultDisplay(n)]_vars

====
